---- MODULE Spec2Model ----
(***************************************************************************)
(* Model of CesiumWindParticle: the vector field (src/src/Field.ts,        *)
(* src/src/Vector.ts) and the particle engine with its frame loop          *)
(* (src/src/CesiumParticles.ts).                                           *)
(*                                                                         *)
(* JavaScript numbers are modelled exactly: a number is a record           *)
(* [t, n, d] where t = "num" is the rational n/d in lowest terms,          *)
(* t = "sqrt" is the irrational square root of n/d, and t = "nan",         *)
(* "inf", "ninf", "null", "undef" are NaN, +Infinity, -Infinity, null and  *)
(* undefined.  Every input of the model is a binary fraction, so the       *)
(* rational arithmetic below agrees with IEEE double arithmetic on it.     *)
(***************************************************************************)
EXTENDS Integers, Sequences, FiniteSets, TLC

VARIABLES
    ctorOptions,    \* the options a Field is constructed from
    field,          \* this.field
    call,           \* the last call made on the Field, with its result
    particles,      \* this._particles
    then,           \* this._then
    animationLoop,  \* this.animationLoop
    pending,        \* handles of the animation frames the host still owes
    clock,          \* Date.now()
    added,          \* number of calls of addToCesiumScene so far
    frame,          \* the last run of animate: its now, delta and renders
    obs             \* per particle, what the last render did with it

vars == <<ctorOptions, field, call, particles, then, animationLoop, pending,
          clock, added, frame, obs>>

fieldVars == <<ctorOptions, field, call>>

engineVars == <<particles, then, animationLoop, pending, clock, added,
                frame, obs>>

----------------------------------------------------------------------------
(* JavaScript values and arithmetic                                        *)

Abs(k) == IF k < 0 THEN -k ELSE k

RECURSIVE GCD(_, _)
GCD(a, b) == IF b = 0 THEN a ELSE GCD(b, a % b)

\* the integer k
Whole(k) == [t |-> "num", n |-> k, d |-> 1]

\* the rational n/d in lowest terms
Num(n, d) ==
    IF d = 1 THEN Whole(n)
    ELSE LET g == GCD(Abs(n), Abs(d))
             s == IF d < 0 THEN -1 ELSE 1
         IN  [t |-> "num", n |-> (s * n) \div g, d |-> (s * d) \div g]

NaN == [t |-> "nan", n |-> 0, d |-> 1]

Null == [t |-> "null", n |-> 0, d |-> 1]

Undefined == [t |-> "undef", n |-> 0, d |-> 1]

PositiveInfinity == [t |-> "inf", n |-> 0, d |-> 1]

NegativeInfinity == [t |-> "ninf", n |-> 0, d |-> 1]

IsNum(a) == a.t = "num"

IsNaN(a) == a.t = "nan"

\* least common denominator of two rationals
Lcd(a, b) == (a.d \div GCD(a.d, b.d)) * b.d

IsInfinite(a) == a.t \in {"inf", "ninf"}

\* the product with an infinite factor: Infinity * 0 is NaN, otherwise the
\* infinity that carries the sign of the product
InfiniteProduct(a, b) ==
    LET sign(c) == CASE c.t = "inf" -> 1
                     [] c.t = "ninf" -> -1
                     [] c.t = "num" -> IF c.n > 0 THEN 1 ELSE IF c.n < 0 THEN -1 ELSE 0
                     [] OTHER -> 0
        sg == sign(a) * sign(b)
    IN  IF sg > 0 THEN PositiveInfinity
        ELSE IF sg < 0 THEN NegativeInfinity
        ELSE NaN

\* a + b, a - b, a * b on numbers; NaN is contagious
Add(a, b) ==
    IF ~(IsNum(a) /\ IsNum(b)) THEN NaN
    ELSE IF a.d = b.d THEN Num(a.n + b.n, a.d)
    ELSE LET l == Lcd(a, b)
         IN  Num(a.n * (l \div a.d) + b.n * (l \div b.d), l)

Sub(a, b) ==
    IF ~(IsNum(a) /\ IsNum(b)) THEN NaN
    ELSE IF a.d = b.d THEN Num(a.n - b.n, a.d)
    ELSE LET l == Lcd(a, b)
         IN  Num(a.n * (l \div a.d) - b.n * (l \div b.d), l)

Mul(a, b) ==
    IF IsInfinite(a) \/ IsInfinite(b) THEN InfiniteProduct(a, b)
    ELSE IF ~(IsNum(a) /\ IsNum(b)) THEN NaN
    ELSE IF a.d = 1 /\ b.d = 1 THEN Whole(a.n * b.n)
    ELSE LET g1 == GCD(Abs(a.n), b.d)
             g2 == GCD(Abs(b.n), a.d)
         IN  Num((a.n \div g1) * (b.n \div g2), (a.d \div g2) * (b.d \div g1))

\* a / b: division by zero gives NaN (0/0) or a signed infinity
Div(a, b) ==
    IF ~(IsNum(a) /\ IsNum(b)) THEN NaN
    ELSE IF b.n = 0
         THEN IF a.n = 0 THEN NaN
              ELSE IF a.n > 0 THEN PositiveInfinity ELSE NegativeInfinity
         ELSE Num(a.n * b.d, a.d * b.n)

\* a % b for a >= 0, b > 0 as used by animate; x % 0 is NaN
Rem(a, b) ==
    IF ~(IsNum(a) /\ IsNum(b)) \/ b.n = 0 THEN NaN
    ELSE LET q == (Abs(a.n) * b.d) \div (a.d * Abs(b.n))
             r == Sub([a EXCEPT !.n = Abs(a.n)],
                      Mul(Whole(q), [b EXCEPT !.n = Abs(b.n)]))
         IN  IF a.n < 0 THEN Sub(Whole(0), r) ELSE r

MathFloor(a) == IF IsNum(a) THEN Whole(a.n \div a.d) ELSE a

MathCeil(a) == IF IsNum(a) THEN Whole(-((-a.n) \div a.d)) ELSE a

\* Math.round: the nearest integer, a tie going up; NaN and the infinities
\* are returned as they are
MathRound(a) == IF IsNum(a) THEN MathFloor(Add(a, Num(1, 2))) ELSE a

Sign(k) == IF k < 0 THEN -1 ELSE IF k > 0 THEN 1 ELSE 0

\* order of two rationals: -1, 0, 1
NumCmp(a, b) ==
    IF a.d = b.d THEN Sign(a.n - b.n)
    ELSE LET l == Lcd(a, b)
         IN  Sign(a.n * (l \div a.d) - b.n * (l \div b.d))

Radicand(a) == [t |-> "num", n |-> a.n, d |-> a.d]

IsOrdered(a) == a.t \in {"num", "sqrt", "inf", "ninf"}

\* order of two non-NaN numbers (a square root is compared by its square)
Cmp(a, b) ==
    CASE a.t = "inf" -> IF b.t = "inf" THEN 0 ELSE 1
      [] a.t = "ninf" -> IF b.t = "ninf" THEN 0 ELSE -1
      [] b.t = "inf" -> -1
      [] b.t = "ninf" -> 1
      [] a.t = "num" /\ b.t = "num" -> NumCmp(a, b)
      [] a.t = "sqrt" /\ b.t = "sqrt" -> NumCmp(Radicand(a), Radicand(b))
      [] a.t = "sqrt" /\ b.t = "num" ->
            IF b.n < 0 THEN 1 ELSE NumCmp(Radicand(a), Mul(b, b))
      [] a.t = "num" /\ b.t = "sqrt" ->
            IF a.n < 0 THEN -1 ELSE NumCmp(Mul(a, a), Radicand(b))

\* a < b, a <= b, a > b, a >= b: false as soon as one side is NaN
Lt(a, b) == IsOrdered(a) /\ IsOrdered(b) /\ Cmp(a, b) < 0

Le(a, b) == IsOrdered(a) /\ IsOrdered(b) /\ Cmp(a, b) <= 0

Gt(a, b) == IsOrdered(a) /\ IsOrdered(b) /\ Cmp(a, b) > 0

Ge(a, b) == IsOrdered(a) /\ IsOrdered(b) /\ Cmp(a, b) >= 0

MathMin(a, b) ==
    IF ~IsOrdered(a) \/ ~IsOrdered(b) THEN NaN
    ELSE IF Cmp(a, b) <= 0 THEN a ELSE b

MathMax(a, b) ==
    IF ~IsOrdered(a) \/ ~IsOrdered(b) THEN NaN
    ELSE IF Cmp(a, b) >= 0 THEN a ELSE b

\* least r in lo..hi with r * r >= k, by bisection
RECURSIVE RootIn(_, _, _)
RootIn(k, lo, hi) ==
    IF lo >= hi THEN lo
    ELSE LET mid == (lo + hi) \div 2
         IN  IF mid * mid >= k THEN RootIn(k, lo, mid) ELSE RootIn(k, mid + 1, hi)

Root(k) == RootIn(k, 0, IF k < 46340 THEN k ELSE 46340)

\* Math.sqrt: exact on squares of rationals, symbolic otherwise
MathSqrt(a) ==
    IF ~IsNum(a) \/ a.n < 0 THEN NaN
    ELSE LET rn == Root(a.n)
             rd == Root(a.d)
         IN  IF rn * rn = a.n /\ rd * rd = a.d THEN Num(rn, rd)
             ELSE [t |-> "sqrt", n |-> a.n, d |-> a.d]

\* the element of a singleton set: Only({ e(x) : x \in {a} }) is e(a) with a
\* computed once
Only(S) == CHOOSE v \in S : TRUE

\* truthiness of a number-or-absent value: 0, NaN, null, undefined are falsy
Truthy(a) == ~(a.t \in {"nan", "null", "undef"}) /\ ~(a.t = "num" /\ a.n = 0)

\* idx is an index of the JavaScript array held as the sequence arr
HasIndex(arr, idx) ==
    IsNum(idx) /\ idx.d = 1 /\ idx.n >= 0 /\ idx.n < Len(arr)

\* arr[idx]: undefined off the end
ArrayGet(arr, idx) == IF HasIndex(arr, idx) THEN arr[idx.n + 1] ELSE Undefined

----------------------------------------------------------------------------
(* Vector.ts                                                               *)

magnitude(u, v) == MathSqrt(Add(Mul(u, u), Mul(v, v)))

Vector(u, v) == [t |-> "vec", u |-> u, v |-> v, m |-> magnitude(u, v)]

----------------------------------------------------------------------------
(* Field.ts                                                                *)

floorMod(a, n) == Sub(a, Mul(n, MathFloor(Div(a, n))))

isValid(x) == x.t # "null" /\ x.t # "undef"

\* one cell of buildGrid: us[p], vs[p] -> Vector or null
buildCell(us, vs, p) ==
    LET u == ArrayGet(us, Whole(p))
        v == ArrayGet(vs, Whole(p))
        valid == isValid(u) /\ isValid(v)
    IN  IF valid THEN Vector(u, v) ELSE Null

buildGrid(rows, cols, us, vs, isContinuous) ==
    [j \in 1..rows |->
        LET row == [i \in 1..cols |-> buildCell(us, vs, (j - 1) * cols + (i - 1))]
        IN  IF isContinuous THEN Append(row, ArrayGet(row, Whole(0))) ELSE row]

\* body of the double loop of calculateRange at cell k (row-major)
RECURSIVE rangeLoop(_, _, _, _)
rangeLoop(grid, cols, k, acc) ==
    IF k >= Len(grid) * cols THEN acc
    ELSE LET vec == grid[(k \div cols) + 1][(k % cols) + 1]
             val == IF Truthy(vec.m) THEN vec.m ELSE magnitude(vec.u, vec.v)
             min == acc[1]
             max == acc[2]
             next ==
                IF vec = Null THEN acc
                ELSE IF min.t = "undef" THEN <<val, max>>
                ELSE IF max.t = "undef"
                     THEN <<MathMin(min, val), MathMax(MathMin(min, val), val)>>
                ELSE <<MathMin(val, min), MathMax(val, max)>>
         IN  rangeLoop(grid, cols, k + 1, next)

\* calculateRange: [threw, range]
calculateRange(grid) ==
    IF Len(grid) = 0
    THEN [threw |-> "grid required", range |-> <<Undefined, Undefined>>]
    ELSE [threw |-> "",
          range |-> rangeLoop(grid, Len(grid[1]), 0,
                              <<PositiveInfinity, NegativeInfinity>>)]

\* constructor: the Field object, with the error it threw (if any) in threw
Field(options) ==
    LET flipY == Lt(options.deltaY, Whole(0)) /\ Lt(options.ymin, options.ymax)
        ymin == IF flipY THEN options.ymin ELSE MathMin(options.ymax, options.ymin)
        ymax == IF flipY THEN options.ymax ELSE MathMax(options.ymax, options.ymin)
        isContinuous ==
            Ge(MathFloor(Mul(Whole(options.cols), options.deltaX)), Whole(360))
        wrappedX ==
            IF options.wrappedX THEN options.wrappedX
            ELSE Gt(options.xmax, Whole(180))
        grid == buildGrid(options.rows, options.cols, options.us, options.vs,
                          isContinuous)
        r == calculateRange(grid)
    IN  [xmin |-> options.xmin, xmax |-> options.xmax,
         ymin |-> ymin, ymax |-> ymax,
         cols |-> options.cols, rows |-> options.rows,
         us |-> options.us, vs |-> options.vs,
         deltaX |-> options.deltaX, deltaY |-> options.deltaY,
         isContinuous |-> isContinuous, wrappedX |-> wrappedX,
         grid |-> grid, range |-> r.range, threw |-> r.threw]

\* mutant: the weights of g00 and g11 exchanged
bilinearInterpolateVector_Swapped(x, y, g00, g10, g01, g11) ==
    LET rx == Sub(Whole(1), x)
        ry == Sub(Whole(1), y)
        a == Mul(x, y)
        b == Mul(x, ry)
        c == Mul(rx, y)
        d == Mul(rx, ry)
        u == Add(Add(Add(Mul(g00.u, a), Mul(g10.u, b)), Mul(g01.u, c)),
                 Mul(g11.u, d))
        v == Add(Add(Add(Mul(g00.v, a), Mul(g10.v, b)), Mul(g01.v, c)),
                 Mul(g11.v, d))
    IN  Vector(u, v)

bilinearInterpolateVector(x, y, g00, g10, g01, g11) ==
    LET rx == Sub(Whole(1), x)
        ry == Sub(Whole(1), y)
        a == Mul(rx, ry)
        b == Mul(x, ry)
        c == Mul(rx, y)
        d == Mul(x, y)
        u == Add(Add(Add(Mul(g00.u, a), Mul(g10.u, b)), Mul(g01.u, c)),
                 Mul(g11.u, d))
        v == Add(Add(Add(Mul(g00.v, a), Mul(g10.v, b)), Mul(g01.v, c)),
                 Mul(g11.v, d))
    IN  Vector(u, v)

getWrappedLongitudes(f) ==
    IF f.wrappedX
    THEN IF f.isContinuous THEN <<Whole(-180), Whole(180)>>
         ELSE <<Sub(f.xmin, Whole(360)), Sub(f.xmax, Whole(360))>>
    ELSE <<f.xmin, f.xmax>>

contains(f, lon, lat) ==
    LET w == getWrappedLongitudes(f)
        xmin == w[1]
        xmax == w[2]
        longitudeIn == Ge(lon, xmin) /\ Le(lon, xmax)
        latitudeIn ==
            IF Ge(f.deltaY, Whole(0))
            THEN Ge(lat, f.ymin) /\ Le(lat, f.ymax)
            ELSE Ge(lat, f.ymax) /\ Le(lat, f.ymin)
    IN  longitudeIn /\ latitudeIn

getDecimalIndexes(f, lon, lat) ==
    <<Div(floorMod(Sub(lon, f.xmin), Whole(360)), f.deltaX),
      Div(Sub(f.ymax, lat), f.deltaY)>>

clampColumnIndex(f, ii) ==
    LET i0 == IF Lt(ii, Whole(0)) THEN Whole(0) ELSE ii
        maxCol == Whole(f.cols - 1)
    IN  IF Gt(ii, maxCol) THEN maxCol ELSE i0

clampRowIndex(f, jj) ==
    LET j0 == IF Lt(jj, Whole(0)) THEN Whole(0) ELSE jj
        maxRow == Whole(f.rows - 1)
    IN  IF Gt(jj, maxRow) THEN maxRow ELSE j0

\* this.grid[j][i]; rows are arrays, so a missing row makes the read undefined
valueAtIndexes(f, i, j) ==
    IF HasIndex(f.grid, j) THEN ArrayGet(f.grid[j.n + 1], i) ELSE Undefined

valueAt(f, lon, lat) ==
    IF ~contains(f, lon, lat) THEN Null
    ELSE Only({ LET ii == MathFloor(indexes[1])
                    jj == MathFloor(indexes[2])
                    ci == clampColumnIndex(f, ii)
                    cj == clampRowIndex(f, jj)
                IN  valueAtIndexes(f, ci, cj) :
                indexes \in {getDecimalIndexes(f, lon, lat)} })

\* mutant: the lower row index is not clamped to the grid
getFourSurroundingIndexes_Unclamped(f, i, j) ==
    LET fi == MathFloor(i)
        ci0 == Add(fi, Whole(1))
        ci1 == IF f.isContinuous /\ Ge(ci0, Whole(f.cols)) THEN Whole(0) ELSE ci0
        ci == clampColumnIndex(f, ci1)
        fj == clampRowIndex(f, MathFloor(j))
        cj == Add(fj, Whole(1))
    IN  <<fi, ci, fj, cj>>

getFourSurroundingIndexes(f, i, j) ==
    LET fi == MathFloor(i)
        ci0 == Add(fi, Whole(1))
        ci1 == IF f.isContinuous /\ Ge(ci0, Whole(f.cols)) THEN Whole(0) ELSE ci0
        ci == clampColumnIndex(f, ci1)
        fj == clampRowIndex(f, MathFloor(j))
        cj == clampRowIndex(f, Add(fj, Whole(1)))
    IN  <<fi, ci, fj, cj>>

\* the four corner cells, or null (the empty sequence <<>> stands for null)
getFourSurroundingValues(f, fi, ci, fj, cj) ==
    IF ~HasIndex(f.grid, fj) THEN <<>>
    ELSE LET row0 == f.grid[fj.n + 1]
             g00 == ArrayGet(row0, fi)
             g10 == ArrayGet(row0, ci)
         IN  IF ~(isValid(g00) /\ isValid(g10) /\ HasIndex(f.grid, cj)) THEN <<>>
             ELSE LET row1 == f.grid[cj.n + 1]
                      g01 == ArrayGet(row1, fi)
                      g11 == ArrayGet(row1, ci)
                  IN  IF isValid(g01) /\ isValid(g11)
                      THEN <<g00, g10, g01, g11>>
                      ELSE <<>>

\* indexes = <<fi, ci, fj, cj>>
interpolatePoint(f, i, j) ==
    Only({ Only({ IF values # <<>>
                  THEN bilinearInterpolateVector(
                           Sub(i, indexes[1]), Sub(j, indexes[3]),
                           values[1], values[2], values[3], values[4])
                  ELSE Null :
                  values \in {getFourSurroundingValues(f, indexes[1], indexes[2],
                                                       indexes[3], indexes[4])} }) :
           indexes \in {getFourSurroundingIndexes(f, i, j)} })

\* mutant: the domain check is missing
interpolatedValueAt_NoContains(f, lon, lat) ==
    Only({ interpolatePoint(f, ij[1], ij[2]) :
           ij \in {getDecimalIndexes(f, lon, lat)} })

interpolatedValueAt(f, lon, lat) ==
    IF ~contains(f, lon, lat) THEN Null
    ELSE Only({ interpolatePoint(f, ij[1], ij[2]) :
                ij \in {getDecimalIndexes(f, lon, lat)} })

hasValueAt(f, lon, lat) == valueAt(f, lon, lat) # Null

longitudeAtX(f, i) ==
    LET halfXPixel == Div(f.deltaX, Whole(2))
        lon == Add(Add(f.xmin, halfXPixel), Mul(Whole(i), f.deltaX))
    IN  IF f.wrappedX /\ Gt(lon, Whole(180)) THEN Sub(lon, Whole(360)) ELSE lon

latitudeAtY(f, j) ==
    LET halfYPixel == Div(f.deltaY, Whole(2))
    IN  Sub(Sub(f.ymax, halfYPixel), Mul(Whole(j), f.deltaY))

----------------------------------------------------------------------------
(* CesiumParticles.ts: the particle engine                                 *)

\* mutant: the index is not clamped from below
indexFor_NoLowerClamp(m, min, max, colorScale) ==
    MathMin(Whole(Len(colorScale) - 1),
            MathRound(Mul(Div(Sub(m, min), Sub(max, min)),
                          Whole(Len(colorScale) - 1))))

\* indexFor: the position of the magnitude m in the colour scale
indexFor(m, min, max, colorScale) ==
    MathMax(Whole(0),
            MathMin(Whole(Len(colorScale) - 1),
                    MathRound(Mul(Div(Sub(m, min), Sub(max, min)),
                                  Whole(Len(colorScale) - 1)))))

\* a particle as prepareParticles creates it: xt, yt and m are absent
Particle(age, x, y) ==
    [age |-> age, x |-> x, y |-> y,
     xt |-> Undefined, yt |-> Undefined, m |-> Undefined]

\* rnd = [i, j, coords]: the two random indexes drawn and what unproject
\* returned for them (<<lon, lat>>, or <<>> for null)
assignRandomPosition(f, particle, rnd) ==
    IF rnd.coords # <<>>
    THEN [particle EXCEPT !.x = rnd.coords[1], !.y = rnd.coords[2]]
    ELSE [particle EXCEPT !.x = longitudeAtX(f, rnd.i),
                          !.y = latitudeAtY(f, rnd.j)]

\* mutant: a particle is recycled as soon as its age reaches maxAge
moveParticle_RecycleAtMaxAge(f, opts, particle, rnd) ==
    Only({ Only({
        LET maxAge == opts.maxAge
            x == p1.x
            y == p1.y
            xt == Add(x, Mul(vector.u, opts.velocityScale))
            yt == Add(y, Mul(vector.v, opts.velocityScale))
        IN  Only({
            LET p2 == IF vector = Null THEN [p1 EXCEPT !.age = maxAge]
                      ELSE IF has
                           THEN [p1 EXCEPT !.xt = xt, !.yt = yt, !.m = vector.m]
                           ELSE [p1 EXCEPT !.x = xt, !.y = yt, !.age = maxAge]
            IN  [particle |-> [p2 EXCEPT !.age = p2.age + 1],
                 recycled |-> particle.age >= maxAge,
                 at |-> <<x, y>>,
                 hadVector |-> vector # Null,
                 staged |-> vector # Null /\ has,
                 exited |-> vector # Null /\ ~has] :
            has \in {vector # Null /\ hasValueAt(f, xt, yt)} }) :
        vector \in {interpolatedValueAt(f, p1.x, p1.y)} }) :
      p1 \in {IF particle.age >= opts.maxAge
               THEN assignRandomPosition(f, [particle EXCEPT !.age = 0], rnd)
               ELSE particle} })

\* mutant: a particle that leaves the field keeps its age
moveParticle_ExitKeepsAge(f, opts, particle, rnd) ==
    Only({ Only({
        LET maxAge == opts.maxAge
            x == p1.x
            y == p1.y
            xt == Add(x, Mul(vector.u, opts.velocityScale))
            yt == Add(y, Mul(vector.v, opts.velocityScale))
        IN  Only({
            LET p2 == IF vector = Null THEN [p1 EXCEPT !.age = maxAge]
                      ELSE IF has
                           THEN [p1 EXCEPT !.xt = xt, !.yt = yt, !.m = vector.m]
                           ELSE [p1 EXCEPT !.x = xt, !.y = yt]
            IN  [particle |-> [p2 EXCEPT !.age = p2.age + 1],
                 recycled |-> particle.age > maxAge,
                 at |-> <<x, y>>,
                 hadVector |-> vector # Null,
                 staged |-> vector # Null /\ has,
                 exited |-> vector # Null /\ ~has] :
            has \in {vector # Null /\ hasValueAt(f, xt, yt)} }) :
        vector \in {interpolatedValueAt(f, p1.x, p1.y)} }) :
      p1 \in {IF particle.age > opts.maxAge
               THEN assignRandomPosition(f, [particle EXCEPT !.age = 0], rnd)
               ELSE particle} })

\* one iteration of the loop of moveParticles; besides the particle it
\* reports which branches were taken
moveParticle(f, opts, particle, rnd) ==
    Only({ Only({
        LET maxAge == opts.maxAge
            x == p1.x
            y == p1.y
            xt == Add(x, Mul(vector.u, opts.velocityScale))
            yt == Add(y, Mul(vector.v, opts.velocityScale))
        IN  Only({
            LET p2 == IF vector = Null THEN [p1 EXCEPT !.age = maxAge]
                      ELSE IF has
                           THEN [p1 EXCEPT !.xt = xt, !.yt = yt, !.m = vector.m]
                           ELSE [p1 EXCEPT !.x = xt, !.y = yt, !.age = maxAge]
            IN  [particle |-> [p2 EXCEPT !.age = p2.age + 1],
                 recycled |-> particle.age > maxAge,
                 at |-> <<x, y>>,
                 hadVector |-> vector # Null,
                 staged |-> vector # Null /\ has,
                 exited |-> vector # Null /\ ~has] :
            has \in {vector # Null /\ hasValueAt(f, xt, yt)} }) :
        vector \in {interpolatedValueAt(f, p1.x, p1.y)} }) :
      p1 \in {IF particle.age > opts.maxAge
               THEN assignRandomPosition(f, [particle EXCEPT !.age = 0], rnd)
               ELSE particle} })

\* mutant: the position is committed even when a projection fails
drawCoordsParticle_CommitsUnprojected(opts, particle, host) ==
    LET source == <<particle.x, particle.y>>
        target == <<particle.xt, particle.yt>>
    IN  IF host.visible /\ particle.age <= opts.maxAge
        THEN [particle |-> [particle EXCEPT !.x = particle.xt, !.y = particle.yt],
              drawn |-> host.prev /\ host.next,
              source |-> source, target |-> target, magnitude |-> particle.m]
        ELSE [particle |-> particle, drawn |-> FALSE,
              source |-> source, target |-> target, magnitude |-> particle.m]

\* mutant: a segment is drawn whatever the age of the particle
drawCoordsParticle_AnyAge(opts, particle, host) ==
    LET source == <<particle.x, particle.y>>
        target == <<particle.xt, particle.yt>>
    IN  IF host.visible /\ host.prev /\ host.next
        THEN [particle |-> [particle EXCEPT !.x = particle.xt, !.y = particle.yt],
              drawn |-> TRUE,
              source |-> source, target |-> target, magnitude |-> particle.m]
        ELSE [particle |-> particle, drawn |-> FALSE,
              source |-> source, target |-> target, magnitude |-> particle.m]

\* host = [visible, prev, next]: intersectsCoordinate(target), and whether
\* project returned a point for the source and for the target
drawCoordsParticle(opts, particle, host) ==
    LET source == <<particle.x, particle.y>>
        target == <<particle.xt, particle.yt>>
    IN  IF host.visible /\ particle.age <= opts.maxAge /\ host.prev /\ host.next
        THEN [particle |-> [particle EXCEPT !.x = particle.xt, !.y = particle.yt],
              drawn |-> TRUE,
              source |-> source, target |-> target, magnitude |-> particle.m]
        ELSE [particle |-> particle, drawn |-> FALSE,
              source |-> source, target |-> target, magnitude |-> particle.m]

\* one iteration of the loop of drawParticles
drawParticle(opts, particle, host) ==
    IF ~Truthy(particle.xt) \/ ~Truthy(particle.yt)
    THEN [particle |-> particle, drawn |-> FALSE,
          source |-> <<particle.x, particle.y>>,
          target |-> <<particle.xt, particle.yt>>, magnitude |-> particle.m]
    ELSE drawCoordsParticle(opts, particle, host)

\* the array of the values body[k], k = 1..n, each computed once
Array(body) == body \o <<>>

moveParticles(f, opts, ps, env) ==
    Array([k \in 1..Len(ps) |-> moveParticle(f, opts, ps[k], env.rnd[k])])

drawParticles(opts, ps, env) ==
    Array([k \in 1..Len(ps) |-> drawParticle(opts, ps[k], env.host[k])])

\* render: moveParticles, then drawParticles; the result holds the pool and
\* the record of what happened to each particle.  The record also counts,
\* since the particle was last recycled (or created), the ticks that
\* followed (ticks) and the segments drawn (draws); a recycle records the
\* ticks since the recycle before it (gap) and the segments drawn between
\* the two (closed).
render(f, opts, ps, before, env) ==
    Only({ Only({
         [particles |-> Array([k \in 1..Len(ps) |-> drawn[k].particle]),
         obs |-> Array([k \in 1..Len(ps) |->
                    [startAge |-> ps[k].age,
                     recycled |-> moved[k].recycled,
                     rnd |-> env.rnd[k],
                     at |-> moved[k].at,
                     hadVector |-> moved[k].hadVector,
                     staged |-> moved[k].staged,
                     exited |-> moved[k].exited,
                     exitedBefore |-> before[k].exited,
                     host |-> env.host[k],
                     drawn |-> drawn[k].drawn,
                     source |-> drawn[k].source,
                     target |-> drawn[k].target,
                     magnitude |-> drawn[k].magnitude,
                     everRecycled |-> before[k].everRecycled
                                         \/ moved[k].recycled,
                     ticks |-> IF moved[k].recycled THEN 0
                               ELSE before[k].ticks + 1,
                     gap |-> IF moved[k].recycled /\ before[k].everRecycled
                             THEN before[k].ticks + 1 ELSE 0,
                     draws |-> (IF moved[k].recycled THEN 0
                                ELSE before[k].draws)
                               + (IF drawn[k].drawn THEN 1 ELSE 0),
                     closed |-> IF moved[k].recycled THEN before[k].draws
                                ELSE 0]])] :
         drawn \in {drawParticles(opts,
                                  Array([k \in 1..Len(ps) |-> moved[k].particle]),
                                  env)} }) :
       moved \in {moveParticles(f, opts, ps, env)} })

\* the host is not asked to project anything for the particle
NoHost == [visible |-> FALSE, prev |-> FALSE, next |-> FALSE]

\* the record of a particle no render has touched yet
NoObs(p, rnd) ==
    [startAge |-> p.age, recycled |-> FALSE, rnd |-> rnd, at |-> <<p.x, p.y>>,
     hadVector |-> FALSE, staged |-> FALSE, exited |-> FALSE,
     exitedBefore |-> FALSE,
     host |-> NoHost,
     drawn |-> FALSE, source |-> <<p.x, p.y>>, target |-> <<p.xt, p.yt>>,
     magnitude |-> p.m,
     everRecycled |-> FALSE, ticks |-> 0, gap |-> 0, draws |-> 0,
     closed |-> 0]

\* mutant: the random age is rounded up
getRandomAge_Ceil(opts, random) ==
    MathCeil(Mul(random, Whole(opts.maxAge))).n

\* getRandomAge, random being the value of Math.random()
getRandomAge(opts, random) ==
    MathFloor(Mul(random, Whole(opts.maxAge))).n

\* ages[k] is getRandomAge(), rnds[k] the draw of assignRandomPosition
prepareParticles(f, opts, ages, rnds) ==
    Array([k \in 1..opts.paths |->
        assignRandomPosition(f, Particle(ages[k], Whole(0), Whole(0)), rnds[k])])

\* requestAnimationFrame: a handle that names no other outstanding request
\* (handles are opaque, so the least free one stands for the next one)
requestAnimationFrame(used) ==
    CHOOSE h \in 1..(Cardinality(used) + 1) : h \notin used

\* mutant: the stored handle is not cancelled
animate_NoCancel(f, opts, st, now, env) ==
    LET kept == st.pending
        handle == requestAnimationFrame(kept \cup {st.animationLoop})
        delta == now - st.then
        due == delta > opts.frameRate
        then1 == IF due THEN now - (delta % opts.frameRate) ELSE st.then
    IN  Only({ [particles |-> r.particles,
                obs |-> r.obs,
                then |-> then1,
                animationLoop |-> handle,
                pending |-> kept \cup {handle},
                frame |-> [op |-> "animate", now |-> now, then0 |-> st.then,
                           then1 |-> then1, delta |-> delta,
                           renders |-> IF due THEN 1 ELSE 0]] :
               r \in {IF due
                       THEN render(f, opts, st.particles, st.obs, env)
                       ELSE [particles |-> st.particles, obs |-> st.obs]} })

\* mutant: a frame is due as soon as the interval has elapsed
animate_DueAtInterval(f, opts, st, now, env) ==
    LET kept == IF st.animationLoop # 0
                THEN st.pending \ {st.animationLoop}
                ELSE st.pending
        handle == requestAnimationFrame(kept \cup {st.animationLoop})
        delta == now - st.then
        due == delta >= opts.frameRate
        then1 == IF due THEN now - (delta % opts.frameRate) ELSE st.then
    IN  Only({ [particles |-> r.particles,
                obs |-> r.obs,
                then |-> then1,
                animationLoop |-> handle,
                pending |-> kept \cup {handle},
                frame |-> [op |-> "animate", now |-> now, then0 |-> st.then,
                           then1 |-> then1, delta |-> delta,
                           renders |-> IF due THEN 1 ELSE 0]] :
               r \in {IF due
                       THEN render(f, opts, st.particles, st.obs, env)
                       ELSE [particles |-> st.particles, obs |-> st.obs]} })

\* animate on the engine state st at time now: cancels the stored handle,
\* requests the next frame and renders when the frame is due
animate(f, opts, st, now, env) ==
    LET kept == IF st.animationLoop # 0
                THEN st.pending \ {st.animationLoop}
                ELSE st.pending
        handle == requestAnimationFrame(kept \cup {st.animationLoop})
        delta == now - st.then
        due == delta > opts.frameRate
        then1 == IF due THEN now - (delta % opts.frameRate) ELSE st.then
    IN  Only({ [particles |-> r.particles,
                obs |-> r.obs,
                then |-> then1,
                animationLoop |-> handle,
                pending |-> kept \cup {handle},
                frame |-> [op |-> "animate", now |-> now, then0 |-> st.then,
                           then1 |-> then1, delta |-> delta,
                           renders |-> IF due THEN 1 ELSE 0]] :
               r \in {IF due
                       THEN render(f, opts, st.particles, st.obs, env)
                       ELSE [particles |-> st.particles, obs |-> st.obs]} })

\* addToCesiumScene: a fresh pool, _then = Date.now(), then animate()
addToCesiumScene(f, opts, st, now, ages, rnds, env) ==
    Only({ Only({ animate(f, opts, st1, now, env) :
                  st1 \in {[st EXCEPT !.particles = ps,
                                      !.obs = Array([k \in 1..Len(ps) |->
                                                         NoObs(ps[k], rnds[k])]),
                                      !.then = now]} }) :
           ps \in {prepareParticles(f, opts, ages, rnds)} })

----------------------------------------------------------------------------
(* Field inputs: geometries and sample arrays                              *)

\* largest absolute coordinate of a query point
MaxCoord == 3

Half(k) == Num(k, 2)

Seq4(a, b, c, e) == <<Whole(a), Whole(b), Whole(c), Whole(e)>>

Geometry(xmin, xmax, ymin, ymax, deltaX, deltaY, cols, rows) ==
    [xmin |-> Whole(xmin), xmax |-> Whole(xmax),
     ymin |-> Whole(ymin), ymax |-> Whole(ymax),
     deltaX |-> Whole(deltaX), deltaY |-> Whole(deltaY),
     cols |-> cols, rows |-> rows, wrappedX |-> FALSE]

\* the 2 x 2 field of four orthogonal unit vectors
ExampleGeometry == Geometry(0, 2, 0, 2, 1, 1, 2, 2)

ExampleUs == Seq4(1, 0, 0, -1)

ExampleVs == Seq4(0, 1, -1, 0)

WithSamples(g, us, vs) ==
    [xmin |-> g.xmin, xmax |-> g.xmax, ymin |-> g.ymin, ymax |-> g.ymax,
     deltaX |-> g.deltaX, deltaY |-> g.deltaY, cols |-> g.cols, rows |-> g.rows,
     wrappedX |-> g.wrappedX, us |-> us, vs |-> vs]

ExampleOptions == WithSamples(ExampleGeometry, ExampleUs, ExampleVs)

Geometries ==
    { ExampleGeometry,
      Geometry(0, 2, 0, 2, 1, -1, 2, 2),      \* flipped Y, bounds as supplied
      Geometry(0, 2, 2, 0, 1, -1, 2, 2),      \* flipped Y, bounds reversed
      Geometry(0, 2, 2, 0, 1, 1, 2, 2),       \* north-up, bounds reversed
      Geometry(-2, 0, -1, 1, 1, 1, 2, 2),     \* negative coordinates
      Geometry(0, 360, 0, 2, 180, 1, 2, 2),   \* continuous, wrapped
      Geometry(359, 361, 0, 2, 1, 1, 2, 2),   \* wrapped, not continuous
      Geometry(0, 1, 0, 1, 1, 1, 1, 1),       \* a single cell
      Geometry(0, 2, 0, 0, 1, 1, 2, 0) }      \* no rows

\* a sample that makes a cell unusable
Holes == {Null, NaN}

Punch(arr, H, h) == [k \in 1..Len(arr) |-> IF k \in H THEN h ELSE arr[k]]

SampleArrays ==
    { <<Punch(ExampleUs, H, h), ExampleVs>> : H \in SUBSET (1..4), h \in Holes }
    \cup { <<ExampleUs, Punch(ExampleVs, {k}, h)>> : k \in 1..4, h \in Holes }
    \cup { <<SubSeq(ExampleUs, 1, 3), ExampleVs>>,
           <<ExampleUs, SubSeq(ExampleVs, 1, 2)>>,
           <<Punch(ExampleUs, {1, 2}, Null), Punch(ExampleVs, {3, 4}, Null)>> }

FieldOptions == { WithSamples(g, s[1], s[2]) : g \in Geometries, s \in SampleArrays }

Coords ==
    { Half(k) : k \in (-2 * MaxCoord)..(2 * MaxCoord) }

QueryLons == Coords \cup { Whole(-180), Whole(-90), Whole(90), Whole(180) }

QueryLats == Coords

NoCall == [op |-> "none", lon |-> Whole(0), lat |-> Whole(0), ret |-> Null]

NoFrame ==
    [op |-> "none", now |-> 0, then0 |-> 0, then1 |-> 0, delta |-> 0,
     renders |-> 0]

\* placeholder for this.field before a Field has been constructed
NoField == [Field(WithSamples(Geometry(0, 0, 0, 0, 1, 1, 0, 0), <<>>, <<>>))
               EXCEPT !.threw = "not constructed"]

----------------------------------------------------------------------------
(* Field specification: construct a Field, then query it.  The queries are *)
(* read-only, so each behaviour asks one query of the constructed Field.   *)

FieldInit ==
    /\ ctorOptions \in FieldOptions
    /\ field = NoField
    /\ call = NoCall
    /\ particles = <<>>
    /\ then = -1
    /\ animationLoop = -1
    /\ pending = {}
    /\ clock = 0
    /\ added = 0
    /\ frame = NoFrame
    /\ obs = <<>>

NewField ==
    /\ field.threw = "not constructed"
    /\ field' = Field(ctorOptions)
    /\ call' = [NoCall EXCEPT !.op = "new"]
    /\ UNCHANGED <<ctorOptions, engineVars>>

Contains ==
    /\ field.threw = ""
    /\ call.op = "new"
    /\ \E lon \in QueryLons, lat \in QueryLats :
          call' = [op |-> "contains", lon |-> lon, lat |-> lat,
                   ret |-> contains(field, lon, lat)]
    /\ UNCHANGED <<ctorOptions, field, engineVars>>

InterpolatedValueAt ==
    /\ field.threw = ""
    /\ call.op = "new"
    /\ \E lon \in QueryLons, lat \in QueryLats :
          call' = [op |-> "interpolatedValueAt", lon |-> lon, lat |-> lat,
                   ret |-> interpolatedValueAt(field, lon, lat)]
    /\ UNCHANGED <<ctorOptions, field, engineVars>>

HasValueAt ==
    /\ field.threw = ""
    /\ call.op = "new"
    /\ \E lon \in QueryLons, lat \in QueryLats :
          call' = [op |-> "hasValueAt", lon |-> lon, lat |-> lat,
                   ret |-> hasValueAt(field, lon, lat)]
    /\ UNCHANGED <<ctorOptions, field, engineVars>>

FieldNext == NewField \/ Contains \/ InterpolatedValueAt \/ HasValueAt

FieldSpec == FieldInit /\ [][FieldNext]_vars

----------------------------------------------------------------------------
(* Properties of Field                                                     *)

\* the query of the last call, in decimal grid indexes
CallIndexes == getDecimalIndexes(field, call.lon, call.lat)

\* the four corner indexes <<fi, ci, fj, cj>> selected for the last call
CallCorners == getFourSurroundingIndexes(field, CallIndexes[1], CallIndexes[2])

\* the grid holds a vector at column i, row j (both JavaScript numbers)
CellPresent(f, i, j) ==
    /\ HasIndex(f.grid, j)
    /\ HasIndex(f.grid[j.n + 1], i)
    /\ f.grid[j.n + 1][i.n + 1] # Null

CellFinite(f, i, j) ==
    /\ CellPresent(f, i, j)
    /\ IsNum(f.grid[j.n + 1][i.n + 1].u)
    /\ IsNum(f.grid[j.n + 1][i.n + 1].v)

\* the four corner cells c = <<fi, ci, fj, cj>> all hold a vector
AllCornersPresent(f, c) ==
    /\ CellPresent(f, c[1], c[3]) /\ CellPresent(f, c[2], c[3])
    /\ CellPresent(f, c[1], c[4]) /\ CellPresent(f, c[2], c[4])

\* the four corner cells all hold a vector with finite components
AllCornersFinite(f, c) ==
    /\ CellFinite(f, c[1], c[3]) /\ CellFinite(f, c[2], c[3])
    /\ CellFinite(f, c[1], c[4]) /\ CellFinite(f, c[2], c[4])

\* the last call asked for the value at the grid point (i, j) of the field
CallAtGridPoint ==
    /\ call.op = "interpolatedValueAt"
    /\ IsNum(CallIndexes[1]) /\ CallIndexes[1].d = 1
    /\ IsNum(CallIndexes[2]) /\ CallIndexes[2].d = 1
    /\ CallIndexes[1].n \in 0..(field.cols - 1)
    /\ CallIndexes[2].n \in 0..(field.rows - 1)

GridPointCell == field.grid[CallIndexes[2].n + 1][CallIndexes[1].n + 1]

SameVector(a, b) ==
    /\ a # Null /\ b # Null
    /\ IsNum(a.u) /\ IsNum(a.v) /\ a.u = b.u /\ a.v = b.v /\ a.m = b.m

IsMissing(x) == x.t \in {"null", "undef", "nan"}

\* C5 (as claimed): after construction the cell of index p is empty exactly
\* when us[p] or vs[p] is null, undefined or NaN, so no cell holds a vector
\* with a NaN component.
C5_EmptyIffMissingSample ==
    field.threw = "" =>
        \A p \in 0..(field.cols * field.rows - 1) :
            LET cell == field.grid[(p \div field.cols) + 1][(p % field.cols) + 1]
                missing == \/ IsMissing(ArrayGet(field.us, Whole(p)))
                           \/ IsMissing(ArrayGet(field.vs, Whole(p)))
            IN  /\ (cell = Null) <=> missing
                /\ cell # Null => ~IsNaN(cell.u) /\ ~IsNaN(cell.v)

\* C6 (as claimed): constructing a Field with rows >= 1 and cols >= 1 none of
\* whose cells is valid raises an error to the caller.
C6_EmptyFieldFails ==
    ( /\ call.op = "new"
      /\ field.rows >= 1 /\ field.cols >= 1
      /\ \A j \in 1..field.rows : \A i \in 1..field.cols :
            field.grid[j][i] = Null )
    => field.threw # ""

\* C7: interpolatedValueAt returns a vector exactly when the point is inside
\* contains and the four corner cells it selects are all present and
\* non-empty; otherwise it returns empty.
C7_NoPartialInterpolation ==
    call.op = "interpolatedValueAt" =>
        ( call.ret # Null <=>
            /\ contains(field, call.lon, call.lat)
            /\ AllCornersPresent(field, CallCorners) )

\* C7 witness: inside the domain, three corners hold vectors, the fourth is
\* empty, and the answer is empty.
C7_Witness ==
    /\ call.op = "interpolatedValueAt"
    /\ contains(field, call.lon, call.lat)
    /\ CellPresent(field, CallCorners[1], CallCorners[3])
    /\ CellPresent(field, CallCorners[2], CallCorners[3])
    /\ CellPresent(field, CallCorners[1], CallCorners[4])
    /\ ~CellPresent(field, CallCorners[2], CallCorners[4])
    /\ call.ret = Null

\* every sample of the field is a number or a hole (no NaN)
NoNaNSample ==
    \A k \in 1..Len(field.us) : ~IsNaN(field.us[k]) /\ ~IsNaN(field.vs[k])

\* C8 (as claimed): at the coordinate of a grid point (i, j) whose cell is
\* non-empty, interpolatedValueAt returns the stored (u, v) of that cell,
\* whatever its neighbouring cells hold.  (Stated for the points inside
\* contains of fields without NaN samples, where the claim is refuted by an
\* empty neighbour alone.)
C8_NodeValueRegardlessOfNeighbours ==
    ( /\ CallAtGridPoint
      /\ contains(field, call.lon, call.lat)
      /\ Len(field.us) = Len(field.vs) /\ NoNaNSample
      /\ GridPointCell # Null )
        => SameVector(call.ret, GridPointCell)

\* C8 (amended): at the coordinate of a grid point (i, j) that lies inside
\* contains, interpolatedValueAt returns the stored vector of cell (i, j) when
\* the four corner cells it selects all hold finite vectors, and returns empty
\* when any of them is empty.
C8_NodeValue ==
    (CallAtGridPoint /\ contains(field, call.lon, call.lat)) =>
        /\ AllCornersFinite(field, CallCorners)
              => SameVector(call.ret, GridPointCell)
        /\ ~AllCornersPresent(field, CallCorners) => call.ret = Null

\* C8 witness: a grid point with distinct right and lower neighbours, all
\* four finite, answered with its own stored vector.
C8_Witness ==
    /\ CallAtGridPoint
    /\ contains(field, call.lon, call.lat)
    /\ CallCorners[1] # CallCorners[2]
    /\ CallCorners[3] # CallCorners[4]
    /\ AllCornersFinite(field, CallCorners)
    /\ GridPointCell # field.grid[CallCorners[4].n + 1][CallCorners[2].n + 1]
    /\ SameVector(call.ret, GridPointCell)

IsExampleQuery(lon, lat) ==
    /\ ctorOptions = ExampleOptions
    /\ call.op = "interpolatedValueAt"
    /\ call.lon = lon /\ call.lat = lat

\* C9 (as claimed): on the 2 x 2 example field interpolatedValueAt(1, 1) is
\* the average of the four cells: u = 0, v = 0, magnitude = 0.
C9_CentreIsAverage ==
    IsExampleQuery(Whole(1), Whole(1)) =>
        /\ call.ret # Null
        /\ call.ret.u = Whole(0) /\ call.ret.v = Whole(0) /\ call.ret.m = Whole(0)

\* C9 (amended): on the 2 x 2 example field (1, 1) is the grid point of cell
\* (1, 1), so interpolatedValueAt(1, 1) is that cell: u = -1, v = 0,
\* magnitude = 1; the average of the four cells, u = 0, v = 0, magnitude = 0,
\* is the value at (0.5, 1.5).
C9_CentreIsLastCell ==
    /\ IsExampleQuery(Whole(1), Whole(1)) =>
          /\ call.ret # Null
          /\ call.ret.u = Whole(-1) /\ call.ret.v = Whole(0)
          /\ call.ret.m = Whole(1)
    /\ IsExampleQuery(Half(1), Half(3)) =>
          /\ call.ret # Null
          /\ call.ret.u = Whole(0) /\ call.ret.v = Whole(0)
          /\ call.ret.m = Whole(0)

\* C9 witness: the example field was asked for (1, 1) and answered a vector.
C9_Witness == IsExampleQuery(Whole(1), Whole(1)) /\ call.ret # Null

\* C10 (as claimed): for either sign of deltaY, contains is true exactly for
\* the longitudes inside the wrapped longitude bounds and the latitudes
\* between the two latitude bounds of the field.
C10_ContainsBothOrientations ==
    call.op = "contains" =>
        LET w == getWrappedLongitudes(field)
            lo == MathMin(field.ymin, field.ymax)
            hi == MathMax(field.ymin, field.ymax)
        IN  call.ret <=> ( /\ Ge(call.lon, w[1]) /\ Le(call.lon, w[2])
                           /\ Ge(call.lat, lo) /\ Le(call.lat, hi) )

----------------------------------------------------------------------------
(* Engine inputs                                                           *)

\* options.maxAge
MaxAge == 2

\* options.frameRate, the frame interval in milliseconds
FrameRate == 20

\* addToCesiumScene is called at most this often
MaxAdds == 2

\* this.options; particles never interact, so the pool holds one
EngineOptions ==
    [maxAge |-> MaxAge, velocityScale |-> Whole(1), paths |-> 1,
     frameRate |-> FrameRate]

\* a 4 x 2 grid of 2-degree cells over [-4, 4] x [-2, 2]; the cell at
\* longitude 2, latitude 0 has no sample, and the wind at (-4, 2) and at
\* (-2, 2) carries a particle from the one to the other
WindOptions ==
    WithSamples(Geometry(-4, 4, -2, 2, 2, 2, 4, 2),
                <<Whole(2), Whole(-2), Whole(4), Whole(0),
                  Whole(8), Whole(4), Whole(0), Null>>,
                <<Whole(0), Whole(0), Whole(0), Whole(-4),
                  Whole(4), Whole(0), Whole(4), Whole(0)>>)

\* the size of the canvas in pixels
Canvas == [width |-> 2, height |-> 1]

\* milliseconds between two animation frames of the host
Delays == {FrameRate \div 2, FrameRate + FrameRate \div 4}

\* coordinates unproject may return for a pixel
Unprojected == { <<Whole(-4), Whole(2)>>, <<Whole(-2), Whole(-2)>> }

\* the draws of assignRandomPosition: the pixel indexes matter only when
\* unproject returns null
Rnds ==
    { [i |-> 0, j |-> 0, coords |-> c] : c \in Unprojected }
    \cup { [i |-> i, j |-> j, coords |-> <<>>] :
             i \in 0..((IF Canvas.width # 0 THEN Canvas.width
                        ELSE WindOptions.cols) - 1),
             j \in 0..((IF Canvas.height # 0 THEN Canvas.height
                        ELSE WindOptions.rows) - 1) }

\* values of Math.random() in [0, 1): every half step of 1 / maxAge
Randoms == { Num(k, 2 * MaxAge) : k \in 0..(2 * MaxAge - 1) }

\* the ages prepareParticles gives the particles of a new pool
RandomAges ==
    { [k \in 1..EngineOptions.paths |-> getRandomAge(EngineOptions, rs[k])] :
        rs \in [1..EngineOptions.paths -> Randoms] }

\* no position is drawn for a particle that is not recycled
NoRnd == [i |-> 0, j |-> 0, coords |-> <<>>]

\* what the host answers for the segment of one particle: the target is
\* hidden by the globe, project fails on the source, project fails on the
\* target, or the segment can be drawn
Hosts ==
    { [visible |-> FALSE, prev |-> TRUE, next |-> TRUE],
      [visible |-> TRUE, prev |-> FALSE, next |-> TRUE],
      [visible |-> TRUE, prev |-> TRUE, next |-> FALSE],
      [visible |-> TRUE, prev |-> TRUE, next |-> TRUE] }

NoEnv == [rnd |-> [k \in 1..EngineOptions.paths |-> NoRnd],
          host |-> [k \in 1..EngineOptions.paths |-> NoHost]]

\* the random draws of one render: one for each particle that is recycled
RndEnvs(ps) ==
    { r \in [1..Len(ps) -> Rnds \cup {NoRnd}] :
        \A k \in 1..Len(ps) :
            IF ps[k].age > MaxAge THEN r[k] \in Rnds ELSE r[k] = NoRnd }

\* everything the environment decides during animate at time now: nothing
\* when the frame is skipped
Envs(st, now) ==
    IF now - st.then <= FrameRate THEN {NoEnv}
    ELSE { [rnd |-> r, host |-> hs] :
             r \in RndEnvs(st.particles),
             hs \in [1..Len(st.particles) -> Hosts] }

EngineState ==
    [particles |-> particles, obs |-> obs, then |-> then,
     animationLoop |-> animationLoop, pending |-> pending]

\* st is the state after a handler that ran at time now.  The engine only
\* ever uses differences of timestamps, so time is counted from _then.
Becomes(st, now) ==
    /\ particles' = st.particles
    /\ obs' = st.obs
    /\ then' = st.then - st.then
    /\ clock' = now - st.then
    /\ animationLoop' = st.animationLoop
    /\ pending' = st.pending
    /\ frame' = st.frame

----------------------------------------------------------------------------
(* Engine specification                                                    *)

\* after new CesiumParticles(options) and the assignment of its field
Init ==
    /\ ctorOptions = WindOptions
    /\ field = Field(WindOptions)
    /\ call = NoCall
    /\ particles = <<>>
    /\ then = -1
    /\ animationLoop = -1
    /\ pending = {}
    /\ clock = 0
    /\ added = 0
    /\ frame = NoFrame
    /\ obs = <<>>

AddToCesiumScene ==
    /\ added < MaxAdds
    /\ added' = added + 1
    /\ \E ages \in RandomAges,
          rnds \in [1..EngineOptions.paths -> Rnds] :
          \E st \in {addToCesiumScene(field, EngineOptions, EngineState, clock,
                                      ages, rnds, NoEnv)} :
              Becomes([st EXCEPT !.frame.op = "addToCesiumScene"], clock)
    /\ UNCHANGED fieldVars

\* the host runs the callback of a pending animation frame
AnimationFrame ==
    /\ \E h \in pending, dt \in Delays :
          \E now \in {clock + dt},
             st0 \in {[EngineState EXCEPT !.pending = pending \ {h}]} :
              \E env \in Envs(st0, now) :
                  \E st \in {animate(field, EngineOptions, st0, now, env)} :
                      Becomes(st, now)
    /\ UNCHANGED <<fieldVars, added>>

Next == AddToCesiumScene \/ AnimationFrame

Spec == Init /\ [][Next]_vars

----------------------------------------------------------------------------
(* Properties of the particle engine                                       *)

\* the position assignRandomPosition gives a particle for the draw rnd
SeedOf(rnd) ==
    IF rnd.coords # <<>> THEN rnd.coords
    ELSE <<longitudeAtX(field, rnd.i), latitudeAtY(field, rnd.j)>>

\* the target of a particle at position at: at + vector * velocityScale
TargetOf(at) ==
    LET vector == interpolatedValueAt(field, at[1], at[2])
    IN  <<Add(at[1], Mul(vector.u, EngineOptions.velocityScale)),
          Add(at[2], Mul(vector.v, EngineOptions.velocityScale))>>

\* the field has a vector at position at
HasVector(at) == interpolatedValueAt(field, at[1], at[2]) # Null

\* the host can draw the segment: visible target, both projections succeed
Drawable(host) == host.visible /\ host.prev /\ host.next

\* C1 as stated: a particle whose age exceeds maxAge at the start of a tick
\* is recycled in that tick and produces no draw segment in that tick.
C1_RecycledNeverDraws ==
    \A k \in 1..Len(obs) :
        obs[k].startAge > MaxAge => obs[k].recycled /\ ~obs[k].drawn

\* C1 amended: a particle is recycled in a tick exactly when its age exceeds
\* maxAge at the start of the tick; it is then reseeded through
\* assignRandomPosition with age 0 and advected from the new position in the
\* same tick, and when a target is staged there the segment from the reseeded
\* position to that target is drawn in the tick of the recycling.
C1_RecycledThenAdvected ==
    \A k \in 1..Len(obs) :
        LET o == obs[k]
            p == particles[k]
        IN  /\ o.recycled <=> o.startAge > MaxAge
            /\ o.recycled =>
                  /\ o.at = SeedOf(o.rnd)
                  /\ p.age = IF o.staged THEN 1 ELSE MaxAge + 1
                  /\ o.drawn <=> /\ o.staged
                                 /\ Truthy(p.xt) /\ Truthy(p.yt)
                                 /\ Drawable(o.host)
                  /\ o.drawn => o.source = o.at /\ o.target = TargetOf(o.at)

\* a particle was recycled and drew a segment in the same tick
C1_Witness ==
    \E k \in 1..Len(obs) :
        obs[k].startAge > MaxAge /\ obs[k].recycled /\ obs[k].drawn

\* C2: a particle that has a field value at (x, y) but none at its target
\* (xt, yt) moves to (xt, yt) in that tick, draws no segment, is not
\* recycled in that tick (it ends the tick with age maxAge + 1), and is
\* recycled in the next tick.
C2_ExitThenRecycleNextTick ==
    \A k \in 1..Len(obs) :
        LET o == obs[k]
            p == particles[k]
            target == TargetOf(o.at)
            exits == HasVector(o.at) /\ ~hasValueAt(field, target[1], target[2])
        IN  /\ o.exited <=> o.hadVector /\ exits
            /\ o.exited =>
                  /\ <<p.x, p.y>> = target
                  /\ ~o.drawn
                  /\ p.age = MaxAge + 1
            /\ o.exitedBefore => o.recycled /\ o.startAge = MaxAge + 1

\* a particle that left the field in one tick is recycled in the next
C2_Witness ==
    \E k \in 1..Len(obs) : obs[k].exitedBefore /\ obs[k].recycled

\* C3 as stated: a particle for which moveParticles staged a target in this
\* tick and whose age after the increment is at most maxAge yields the draw
\* record {source, target, magnitude} and is committed to the target,
\* provided the target is visible and both projections succeed - also when
\* a coordinate of the target is 0.
C3_StagedTargetIsDrawn ==
    \A k \in 1..Len(obs) :
        LET o == obs[k]
            p == particles[k]
        IN  (o.staged /\ p.age <= MaxAge /\ Drawable(o.host)) =>
                /\ o.drawn
                /\ o.source = o.at
                /\ o.target = TargetOf(o.at)
                /\ o.magnitude = interpolatedValueAt(field, o.at[1], o.at[2]).m
                /\ <<p.x, p.y>> = o.target

\* C4 as stated: a callback with elapsed < interval runs no tick and leaves
\* the reference timestamp alone; one with elapsed >= interval runs render
\* once and advances the reference by elapsed - (elapsed mod interval).
C4_RendersFromInterval ==
    [][frame'.op = "animate" =>
          LET elapsed == frame'.now - frame'.then0
          IN  IF elapsed < FrameRate
              THEN /\ frame'.renders = 0
                   /\ particles' = particles
                   /\ frame'.then1 = frame'.then0
              ELSE /\ frame'.renders = 1
                   /\ frame'.then1 =
                        frame'.then0 + elapsed - (elapsed % FrameRate)]_vars

\* C4 amended: a callback with elapsed <= interval runs no tick and leaves
\* the reference timestamp alone; one with elapsed > interval runs render
\* once and advances the reference by elapsed - (elapsed mod interval).
C4_RendersAfterInterval ==
    [][frame'.op = "animate" =>
          LET elapsed == frame'.now - frame'.then0
          IN  IF elapsed <= FrameRate
              THEN /\ frame'.renders = 0
                   /\ particles' = particles
                   /\ frame'.then1 = frame'.then0
              ELSE /\ frame'.renders = 1
                   /\ frame'.then1 =
                        frame'.then0 + elapsed - (elapsed % FrameRate)]_vars

\* a callback ran when exactly one interval had elapsed
C4_Witness ==
    /\ frame.op = "animate"
    /\ frame.now - frame.then0 = FrameRate
    /\ frame.renders = 0

\* the centre of the grid cell with column index i and row index j
CellCentre(i, j) ==
    <<Add(field.xmin, Mul(Num(2 * i + 1, 2), field.deltaX)),
      Sub(field.ymax, Mul(Num(2 * j + 1, 2), field.deltaY))>>

\* project returned null for the source or for the target of the segment
ProjectionFails(host) == ~host.prev \/ ~host.next

\* the particle p as drawParticles found it: the draw step changes nothing
\* but the position, which it reads as the source of the segment
BeforeDraw(p, o) == [p EXCEPT !.x = o.source[1], !.y = o.source[2]]

\* C13: when project returns null for the source or the target of a staged
\* segment, no segment is drawn for the particle in that tick and the draw
\* step leaves its position where moveParticles left it; the tick completes,
\* and a particle that follows it in the pool is drawn as it would be on its
\* own.  When unproject returns null while a particle is seeded (by
\* prepareParticles or by a recycle), the particle is placed on the centre of
\* the cell whose indexes were drawn.
C13_ProjectionFailureSkipsSegment ==
    /\ Len(particles) = Len(obs)
    /\ \A k \in 1..Len(obs) :
          LET o == obs[k]
              p == particles[k]
              seeded == o.recycled \/ frame.op = "addToCesiumScene"
          IN  /\ (o.staged /\ ProjectionFails(o.host)) =>
                    /\ ~o.drawn
                    /\ <<p.x, p.y>> = o.at
                    /\ p.age = o.startAge + 1 \/ (o.recycled /\ p.age = 1)
                    /\ \A h2 \in Hosts :
                          LET pre == BeforeDraw(p, o)
                              both == drawParticles(
                                          EngineOptions, <<pre, pre>>,
                                          [rnd |-> <<o.rnd, o.rnd>>,
                                           host |-> <<o.host, h2>>])
                          IN  /\ both[1].particle = p
                              /\ ~both[1].drawn
                              /\ both[2] = drawParticle(EngineOptions, pre, h2)
                              /\ both[2].drawn <=>
                                    /\ Truthy(pre.xt) /\ Truthy(pre.yt)
                                    /\ pre.age <= MaxAge
                                    /\ Drawable(h2)
              /\ (seeded /\ o.rnd.coords = <<>>) =>
                    o.at = CellCentre(o.rnd.i, o.rnd.j)

\* a particle recycled onto a cell centre because unproject returned null
\* staged a visible target there, and project failed for the segment
C13_Witness ==
    \E k \in 1..Len(obs) :
        LET o == obs[k]
            p == particles[k]
        IN  /\ o.recycled /\ o.rnd.coords = <<>>
            /\ o.staged /\ Truthy(p.xt) /\ Truthy(p.yt)
            /\ p.age <= MaxAge
            /\ o.host.visible /\ ProjectionFails(o.host)
            /\ ~o.drawn

----------------------------------------------------------------------------
(* Colour specification: indexFor as drawCoordsParticle calls it, on a      *)
(* magnitude, the range [min, max] of a field and a colour scale            *)

\* largest magnitude, in whole units; the magnitudes are its half steps
MaxMagnitude == 3

\* largest number of colours of a colour scale
MaxColors == 4

Magnitudes == { Half(k) : k \in 0..(2 * MaxMagnitude) }

\* [min, max] as calculateRange leaves it for a field with a sample
Ranges == { r \in Magnitudes \X Magnitudes : Le(r[1], r[2]) }

\* options.colorScale when it is an array: n colours
ColorScales == { [k \in 1..n |-> k] : n \in 1..MaxColors }

ColorInit ==
    /\ ctorOptions = ExampleOptions
    /\ field = Field(ExampleOptions)
    /\ call \in { [op |-> "none", m |-> m, min |-> r[1], max |-> r[2],
                    colorScale |-> colorScale, ret |-> Undefined] :
                     m \in Magnitudes, r \in Ranges,
                     colorScale \in ColorScales }
    /\ particles = <<>>
    /\ then = -1
    /\ animationLoop = -1
    /\ pending = {}
    /\ clock = 0
    /\ added = 0
    /\ frame = NoFrame
    /\ obs = <<>>

IndexFor ==
    /\ call.op = "none"
    /\ call' = [call EXCEPT
                   !.op = "indexFor",
                   !.ret = indexFor(call.m, call.min, call.max,
                                    call.colorScale)]
    /\ UNCHANGED <<ctorOptions, field, engineVars>>

ColorNext == IndexFor

ColorSpec == ColorInit /\ [][ColorNext]_vars

----------------------------------------------------------------------------
(* Properties of indexFor                                                  *)

\* C11: with min = max, indexFor returns index 0 for every magnitude and
\* every non-empty colour scale.
C11_DegenerateRangeIsIndexZero ==
    (call.op = "indexFor" /\ call.min = call.max) => call.ret = Whole(0)

\* C12: with min < max and a scale of n >= 1 colours, indexFor lies in
\* 0..n-1 (also for a magnitude below min or above max), is 0 at min and
\* n-1 at max, and does not decrease when the magnitude grows.
C12_IndexInScaleAndMonotonic ==
    (call.op = "indexFor" /\ Lt(call.min, call.max)) =>
        LET n == Len(call.colorScale)
        IN  /\ HasIndex(call.colorScale, call.ret)
            /\ call.m = call.min => call.ret = Whole(0)
            /\ call.m = call.max => call.ret = Whole(n - 1)
            /\ \A m2 \in Magnitudes :
                   Le(call.m, m2) =>
                       Le(call.ret,
                          indexFor(m2, call.min, call.max, call.colorScale))

\* a magnitude below min, mapped into a scale of several colours
C12_Witness ==
    /\ call.op = "indexFor"
    /\ Lt(call.min, call.max)
    /\ Lt(call.m, call.min)
    /\ Len(call.colorScale) > 1
    /\ call.ret = Whole(0)

\* C14: between two consecutive recycles of a particle, and between its
\* creation and its first recycle, at most maxAge segments are drawn for
\* it, and a recycle comes at most maxAge + 1 ticks after the one before.
C14_MaxAgeBoundsDrawsAndLifetime ==
    \A k \in 1..Len(obs) :
        /\ obs[k].draws <= MaxAge
        /\ obs[k].closed <= MaxAge
        /\ obs[k].gap <= MaxAge + 1

\* a particle is recycled maxAge + 1 ticks after its last recycle, having
\* drawn maxAge segments in between
C14_Witness ==
    \E k \in 1..Len(obs) :
        /\ obs[k].recycled
        /\ obs[k].gap = MaxAge + 1
        /\ obs[k].closed = MaxAge

\* C15: at most one animation-frame callback is outstanding at any time:
\* once the loop has been started, the only pending callback is the one
\* whose handle animate stored last, also after addToCesiumScene has been
\* called again; every run of animate has requested the next frame and
\* rendered at most once.
C15_SinglePendingCallback ==
    /\ Cardinality(pending) <= 1
    /\ added = 0 => pending = {}
    /\ added > 0 => pending = {animationLoop}
    /\ frame.renders <= 1

\* addToCesiumScene was called a second time while a callback of the first
\* loop was pending, and one callback is pending
C15_Witness ==
    /\ added > 1
    /\ frame.op = "addToCesiumScene"
    /\ Cardinality(pending) = 1

\* the particle of the record o has been through a tick since it was created
Ticked(o) == o.everRecycled \/ o.ticks > 0

\* C16: the age of every particle is an integer in 0..maxAge-1 after the
\* pool has been initialized and in 1..maxAge+1 after every tick the
\* particle has been through, whatever the field and the host answered; the
\* pool holds options.paths particles from its initialization on.
C16_AgeBounds ==
    /\ Len(particles) = (IF added = 0 THEN 0 ELSE EngineOptions.paths)
    /\ Len(obs) = Len(particles)
    /\ \A k \in 1..Len(particles) :
          IF Ticked(obs[k])
          THEN particles[k].age \in 1..(MaxAge + 1)
          ELSE particles[k].age \in 0..(MaxAge - 1)

\* a tick has left a particle with the age maxAge + 1
C16_Witness ==
    /\ frame.op = "animate" /\ frame.renders = 1
    /\ \E k \in 1..Len(particles) :
          Ticked(obs[k]) /\ particles[k].age = MaxAge + 1

====
